---- MODULE Spec2Model ----
(***************************************************************************)
(* Model of the two scripts of the repository.                             *)
(*                                                                         *)
(*   day-02-fight-club/main.py  enumerates the 8 combinations of three     *)
(*       optional request parameters and sends one chat-completion request *)
(*       per combination (specifications Spec, FairSpec, SpecRerun).       *)
(*   day-01/main.py             loads settings.toml, sends one request and *)
(*       prints the answer (specification SpecDay01).                      *)
(*                                                                         *)
(* Python strings are sequences of characters.  TLA+ string literals hold  *)
(* ASCII only, so every fixed Cyrillic fragment of an f-string is a single *)
(* symbol of the sequence, written in transliteration; configured values   *)
(* are spelled character by character.                                     *)
(***************************************************************************)
EXTENDS Integers, Sequences, FiniteSets, TLC

VARIABLES
    \* day-02: module globals read from config.ini at import (lines 18-22)
    PROMPT_TEMPLATE, RESPONSE_FORMAT, MAX_TOKENS, STOP_SEQUENCE, MODEL,
    \* day-02: main()
    pc,         \* position of main: "main", "loop", "try", "done", "crashed"
    it,         \* items the for loop has taken from product(...)
    i,          \* loop variable i of enumerate(..., 1)
    flags,      \* loop variables <<use_format, use_max_tokens, use_stop>>
    out,        \* what main has printed, in order
    calls,      \* the calls client.chat.completions.create received, in order
    visited,    \* the tuples the loop has taken, in order
    run,        \* which execution of the script this is, 1 or 2
    prevCalls,  \* the calls the first execution made
    prevErrors, \* the number of trials that failed in the first execution
    \* day-01: main()
    d1_pc,        \* "off", "start", "check_key", "send", "result", "done", "raised"
    d1_settings,  \* what load_settings returned
    d1_result,    \* what send_request returned
    d1_out,       \* what the script has printed, in order
    d1_posts,     \* number of requests.post calls issued
    d1_exc        \* the exception that left main, "none" if none

cfgvars == <<PROMPT_TEMPLATE, RESPONSE_FORMAT, MAX_TOKENS, STOP_SEQUENCE, MODEL>>
d2vars == <<pc, it, i, flags, out, calls, visited, run, prevCalls, prevErrors>>
d1vars == <<d1_pc, d1_settings, d1_result, d1_out, d1_posts, d1_exc>>
vars == <<cfgvars, d2vars, d1vars>>

---------------------------------------------------------------------------
\* Bounds of the model.

\* Largest configured max_tokens tried (two digits, so formatting carries).
MaxTokens == 12

---------------------------------------------------------------------------
\* Strings.

Range(s) == {s[k] : k \in 1..Len(s)}

Contains(s, c) == c \in Range(s)

Digits == <<"0", "1", "2", "3", "4", "5", "6", "7", "8", "9">>

\* str(n) for a natural number: its decimal digits, most significant first.
RECURSIVE NatToStr(_)
NatToStr(n) ==
    IF n < 10 THEN <<Digits[n + 1]>>
    ELSE NatToStr(n \div 10) \o <<Digits[(n % 10) + 1]>>

\* format(n) of an int inside an f-string: str(n), a minus sign for n < 0.
IntToStr(n) == IF n < 0 THEN <<"-">> \o NatToStr(0 - n) ELSE NatToStr(n)

\* repr(s) of a str: double quotes when s holds ' and no ", single quotes
\* otherwise; the backslash, the chosen quote and the newline are escaped.
ReprQuote(s) == IF Contains(s, "'") /\ ~Contains(s, "\"") THEN "\"" ELSE "'"

ReprChar(c, q) ==
    IF c = "\\" THEN <<"\\", "\\">>
    ELSE IF c = q THEN <<"\\", c>>
    ELSE IF c = "\n" THEN <<"\\", "n">>
    ELSE <<c>>

RECURSIVE ReprBody(_, _)
ReprBody(s, q) ==
    IF s = <<>> THEN <<>> ELSE ReprChar(Head(s), q) \o ReprBody(Tail(s), q)

repr(s) == <<ReprQuote(s)>> \o ReprBody(s, ReprQuote(s)) \o <<ReprQuote(s)>>

\* sep.join(list)
RECURSIVE Join(_, _)
Join(sep, list) ==
    IF list = <<>> THEN <<>>
    ELSE IF Len(list) = 1 THEN list[1]
    ELSE list[1] \o sep \o Join(sep, Tail(list))

\* The fixed fragments of the f-strings of build_system_prompt (lines 30-34).
FormatLead == "Otvet dolzhen byt v formate "
TokensLead == "Otvet ne dolzhen prevyshat "
TokensTail == " tokenov."
StopLead == "Zavershi otvet pered posledovatelnostyu: "

---------------------------------------------------------------------------
\* day-02-fight-club/main.py: the values config.ini may hold.

StrJson == <<"j", "s", "o", "n">>
StrStop == <<"S", "T", "O", "P">>
StrPing == <<"p", "i", "n", "g">>

Prompts == {StrPing, <<>>}
Formats == {StrJson, <<"J", "S", "O", "N">>, <<"x", "m", "l">>, <<>>}
TokenLimits == {0, 5, MaxTokens}
StopSequences == {StrStop, <<"'">>, <<"'", "\"">>, <<"\\">>}
Models == {"gpt"}

\* What a trial's transport call may do: return a completion whose first
\* choice carries text, raise (network error, non-2xx status), or return a
\* body without a first choice, on which line 61 raises.
AnswerText == <<"p", "o", "n", "g">>
TrialFailures == {"APIError", "IndexError"}

---------------------------------------------------------------------------
\* day-02-fight-club/main.py: build_system_prompt and send_request.

\* Mutant of build_system_prompt: the max-tokens instruction is appended
\* before the format instruction.
build_system_prompt_reordered(use_format, use_max_tokens, use_stop) ==
    LET i1 == IF use_format
              THEN << <<FormatLead>> \o RESPONSE_FORMAT \o <<".">> >>
              ELSE <<>>
        i2 == IF use_max_tokens
              THEN << <<TokensLead>> \o IntToStr(MAX_TOKENS) \o <<TokensTail>> >>
              ELSE <<>>
        i3 == IF use_stop
              THEN << <<StopLead>> \o repr(STOP_SEQUENCE) >>
              ELSE <<>>
        instructions == i2 \o i1 \o i3
    IN  IF instructions # <<>> THEN Join(<<" ">>, instructions) ELSE <<>>

\* lines 25-36
build_system_prompt(use_format, use_max_tokens, use_stop) ==
    LET i1 == IF use_format
              THEN << <<FormatLead>> \o RESPONSE_FORMAT \o <<".">> >>
              ELSE <<>>
        i2 == IF use_max_tokens
              THEN << <<TokensLead>> \o IntToStr(MAX_TOKENS) \o <<TokensTail>> >>
              ELSE <<>>
        i3 == IF use_stop
              THEN << <<StopLead>> \o repr(STOP_SEQUENCE) >>
              ELSE <<>>
        instructions == i1 \o i2 \o i3
    IN  IF instructions # <<>> THEN Join(<<" ">>, instructions) ELSE <<>>

\* Mutant of BuildMessages: the system message is appended without the test
\* of line 44.
BuildMessagesAlwaysSystem(system_instruction) ==
    <<[role |-> "system", content |-> system_instruction],
      [role |-> "user", content |-> PROMPT_TEMPLATE]>>

\* lines 43-46: the message list for a built system instruction
BuildMessages(system_instruction) ==
    (IF system_instruction # <<>>
     THEN <<[role |-> "system", content |-> system_instruction]>>
     ELSE <<>>)
    \o <<[role |-> "user", content |-> PROMPT_TEMPLATE]>>

\* Mutant of BuildKwargs: line 55 tests use_max_tokens instead of use_stop.
BuildKwargsStopSlip(use_format, use_max_tokens, use_stop, messages) ==
    LET k0 == [model |-> MODEL, messages |-> messages]
        k1 == IF use_max_tokens THEN k0 @@ [max_tokens |-> MAX_TOKENS] ELSE k0
        k2 == IF use_max_tokens THEN k1 @@ [stop |-> STOP_SEQUENCE] ELSE k1
    IN  IF use_format /\ RESPONSE_FORMAT = StrJson
        THEN k2 @@ [response_format |-> [type |-> "json_object"]]
        ELSE k2

\* Mutant of BuildKwargs: line 57 does not compare the configured format.
BuildKwargsAnyFormat(use_format, use_max_tokens, use_stop, messages) ==
    LET k0 == [model |-> MODEL, messages |-> messages]
        k1 == IF use_max_tokens THEN k0 @@ [max_tokens |-> MAX_TOKENS] ELSE k0
        k2 == IF use_stop THEN k1 @@ [stop |-> STOP_SEQUENCE] ELSE k1
    IN  IF use_format
        THEN k2 @@ [response_format |-> [type |-> "json_object"]]
        ELSE k2

\* lines 48-58: the keyword arguments of the completion call
BuildKwargs(use_format, use_max_tokens, use_stop, messages) ==
    LET k0 == [model |-> MODEL, messages |-> messages]
        k1 == IF use_max_tokens THEN k0 @@ [max_tokens |-> MAX_TOKENS] ELSE k0
        k2 == IF use_stop THEN k1 @@ [stop |-> STOP_SEQUENCE] ELSE k1
    IN  IF use_format /\ RESPONSE_FORMAT = StrJson
        THEN k2 @@ [response_format |-> [type |-> "json_object"]]
        ELSE k2

\* lines 39-60: send_request up to and including the call of
\* client.chat.completions.create(**kwargs), which the transport records.
send_request(use_format, use_max_tokens, use_stop) ==
    LET system_instruction ==
            build_system_prompt(use_format, use_max_tokens, use_stop)
        messages == BuildMessages(system_instruction)
        kwargs == BuildKwargs(use_format, use_max_tokens, use_stop, messages)
    IN  calls' = Append(calls, [i |-> i,
                                flags |-> <<use_format, use_max_tokens, use_stop>>,
                                system_instruction |-> system_instruction,
                                kwargs |-> kwargs])

---------------------------------------------------------------------------
\* day-02-fight-club/main.py: main.

\* itertools.product(*pools): the last pool varies fastest.
RECURSIVE Product(_)
Product(pools) ==
    IF pools = <<>> THEN << <<>> >>
    ELSE LET result == Product(SubSeq(pools, 1, Len(pools) - 1))
             pool == pools[Len(pools)]
         IN  [k \in 1..(Len(result) * Len(pool)) |->
                 result[((k - 1) \div Len(pool)) + 1]
                     \o <<pool[((k - 1) % Len(pool)) + 1]>>]

\* line 73: product([False, True], repeat=3) and the start of enumerate
Repeat == 3
EnumerateStart == 1
\* Mutant of Combinations: the pool is written [True, False].
CombinationsTrueFirst == Product([k \in 1..Repeat |-> <<TRUE, FALSE>>])
Combinations == Product([k \in 1..Repeat |-> <<FALSE, TRUE>>])

Line(kind, n, text) == [kind |-> kind, i |-> n, text |-> text]

\* lines 74-82: params_str of a tuple
ParamsStr(use_format, use_max_tokens, use_stop) ==
    LET p1 == IF use_format
              THEN << <<"format=">> \o RESPONSE_FORMAT >> ELSE <<>>
        p2 == IF use_max_tokens
              THEN << <<"max_tokens=">> \o IntToStr(MAX_TOKENS) >> ELSE <<>>
        p3 == IF use_stop
              THEN << <<"stop=">> \o repr(STOP_SEQUENCE) >> ELSE <<>>
        params == p1 \o p2 \o p3
    IN  IF params # <<>> THEN Join(<<", ">>, params) ELSE <<"bez parametrov">>

\* lines 66-71: the banner, and the loop is entered
MainBanner ==
    /\ pc = "main"
    /\ out' = out \o <<Line("rule", 0, <<>>), Line("title", 0, <<>>),
                       Line("rule", 0, <<>>),
                       Line("prompt", 0, PROMPT_TEMPLATE)>>
    /\ pc' = "loop"
    /\ UNCHANGED <<cfgvars, it, i, flags, calls, visited, run, prevCalls, prevErrors, d1vars>>

\* lines 73-84: the loop takes the next tuple and prints the trial's header
LoopNext ==
    /\ pc = "loop"
    /\ it < Len(Combinations)
    /\ it' = it + 1
    /\ i' = EnumerateStart + it
    /\ flags' = Combinations[it + 1]
    /\ visited' = Append(visited, Combinations[it + 1])
    /\ out' = Append(out, Line("header", EnumerateStart + it,
                               ParamsStr(Combinations[it + 1][1],
                                         Combinations[it + 1][2],
                                         Combinations[it + 1][3])))
    /\ pc' = "try"
    /\ UNCHANGED <<cfgvars, calls, run, prevCalls, prevErrors, d1vars>>

\* line 73: the product is exhausted, main returns
LoopEnd ==
    /\ pc = "loop"
    /\ it >= Len(Combinations)
    /\ pc' = "done"
    /\ UNCHANGED <<cfgvars, it, i, flags, out, calls, visited, run, prevCalls, prevErrors, d1vars>>

\* lines 85-87: the call returns text, which is printed
TrialAnswer ==
    /\ pc = "try"
    /\ send_request(flags[1], flags[2], flags[3])
    /\ out' = Append(out, Line("answer", i, AnswerText))
    /\ pc' = "loop"
    /\ UNCHANGED <<cfgvars, it, i, flags, visited, run, prevCalls, prevErrors, d1vars>>

\* Mutant of TrialError: no except clause, the exception leaves main.
TrialErrorUncaught ==
    /\ pc = "try"
    /\ \E e \in TrialFailures :
        /\ send_request(flags[1], flags[2], flags[3])
        /\ pc' = "crashed"
    /\ UNCHANGED <<cfgvars, it, i, flags, out, visited, run, prevCalls, prevErrors, d1vars>>

\* Mutant of TrialError: the handler gives up the stop sequence for the
\* trials that follow.
TrialErrorDropsStop ==
    /\ pc = "try"
    /\ \E e \in TrialFailures :
        /\ send_request(flags[1], flags[2], flags[3])
        /\ out' = Append(out, Line("error", i, <<>>))
        /\ pc' = "loop"
    /\ STOP_SEQUENCE' = <<>>
    /\ UNCHANGED <<PROMPT_TEMPLATE, RESPONSE_FORMAT, MAX_TOKENS, MODEL>>
    /\ UNCHANGED <<it, i, flags, visited, run, prevCalls, prevErrors, d1vars>>

\* lines 85-89: send_request raises, at the call (line 60) or on reading the
\* response (line 61); except Exception prints it and the loop goes on
TrialError ==
    /\ pc = "try"
    /\ \E e \in TrialFailures :
        /\ send_request(flags[1], flags[2], flags[3])
        /\ out' = Append(out, Line("error", i, <<>>))
        /\ pc' = "loop"
    /\ UNCHANGED <<cfgvars, it, i, flags, visited, run, prevCalls, prevErrors, d1vars>>

\* lines 10-22, 92-93: the script is started a second time with the same
\* config.ini; what the first execution sent is kept for comparison
Rerun ==
    /\ pc = "done"
    /\ run = 1
    /\ run' = 2
    /\ prevCalls' = calls
    /\ prevErrors' = Len(SelectSeq(out, LAMBDA l : l.kind = "error"))
    /\ pc' = "main"
    /\ it' = 0
    /\ i' = 0
    /\ flags' = <<FALSE, FALSE, FALSE>>
    /\ out' = <<>>
    /\ calls' = <<>>
    /\ visited' = <<>>
    /\ UNCHANGED <<cfgvars, d1vars>>

Day01Off ==
    /\ d1_pc = "off"
    /\ d1_settings = [loaded |-> FALSE, keys |-> {}, api_key |-> ""]
    /\ d1_result = "unset"
    /\ d1_out = <<>>
    /\ d1_posts = 0
    /\ d1_exc = "none"

\* lines 10-22: the module is imported, config.ini holds every key
Init ==
    /\ PROMPT_TEMPLATE \in Prompts
    /\ RESPONSE_FORMAT \in Formats
    /\ MAX_TOKENS \in TokenLimits
    /\ STOP_SEQUENCE \in StopSequences
    /\ MODEL \in Models
    /\ pc = "main"
    /\ it = 0
    /\ i = 0
    /\ flags = <<FALSE, FALSE, FALSE>>
    /\ out = <<>>
    /\ calls = <<>>
    /\ visited = <<>>
    /\ run = 1
    /\ prevCalls = <<>>
    /\ prevErrors = 0
    /\ Day01Off

Next == MainBanner \/ LoopNext \/ LoopEnd \/ TrialAnswer \/ TrialError

Spec == Init /\ [][Next]_vars

\* main is sequential code: whatever step is next is taken.
FairSpec == Spec /\ WF_vars(Next)

NextRerun == Next \/ Rerun

SpecRerun == Init /\ [][NextRerun]_vars

---------------------------------------------------------------------------
\* day-01/main.py.

\* The keys send_request and main read from the settings (lines 35-54, 75).
SettingsKeys == {"api_key", "base_url", "model", "max_tokens", "timeout"}
\* line 75: the placeholder, and a key that is not the placeholder
Placeholder == "your-api-key-here"
ApiKeys == {Placeholder, "YOUR-API-KEY-HERE", "sk-live"}

\* A settings dictionary: the keys it holds and the value of api_key ("" when
\* the key is absent); the other values are passed on unread.  None is
\* loaded = FALSE.
NoSettings == [loaded |-> FALSE, keys |-> {}, api_key |-> ""]
SettingsDicts ==
    {[loaded |-> TRUE, keys |-> ks, api_key |-> k] :
        ks \in SUBSET (SettingsKeys \ {"api_key"}), k \in {""}}
    \cup
    {[loaded |-> TRUE, keys |-> ks \cup {"api_key"}, api_key |-> k] :
        ks \in SUBSET (SettingsKeys \ {"api_key"}), k \in ApiKeys}

\* Bodies a 200 response may carry, as response.json() returns them.
JsonBodies ==
    {"null", "{}", "[]", "5", "\"text\"",
     "{error}", "{choices:null}", "{choices:[]}", "{choices:[{}]}",
     "{choices:[{message:{}}]}", "{choices:[{message:{content}}]}"}

\* bool(result) of line 86 (None is "None")
Truthy(r) == r \notin {"None", "null", "{}", "[]"}

\* "choices" in result (line 88): a key of an object, an element of an
\* array, a substring of a string; TypeError on a number
InChoices(r) ==
    IF r = "5" THEN "TypeError"
    ELSE IF r \in {"\"text\"", "{error}"} THEN "False"
    ELSE "True"

\* len(result["choices"]) (line 88); TypeError on null
LenChoices(r) ==
    IF r = "{choices:null}" THEN "TypeError"
    ELSE IF r = "{choices:[]}" THEN "0"
    ELSE "1"

\* result["choices"][0]["message"]["content"] (line 89)
Content(r) ==
    IF r \in {"{choices:[{}]}", "{choices:[{message:{}}]}"} THEN "KeyError"
    ELSE "content"

\* lines 67-72: the banner, load_settings (lines 6-16) and the test of what
\* it returned
D1_load_settings ==
    /\ d1_pc = "start"
    /\ \/ /\ d1_out' = d1_out \o <<"start", "settings_not_found">>
          /\ d1_settings' = NoSettings
          /\ d1_pc' = "done"
       \/ /\ d1_out' = d1_out \o <<"start", "settings_read_error">>
          /\ d1_settings' = NoSettings
          /\ d1_pc' = "done"
       \/ \E d \in SettingsDicts :
            /\ d1_out' = Append(d1_out, "start")
            /\ d1_settings' = d
            /\ d1_pc' = IF d.keys = {} THEN "done" ELSE "check_key"
    /\ UNCHANGED <<d1_result, d1_posts, d1_exc, cfgvars, d2vars>>

\* Mutant of D1_check_api_key: the return of line 77 is missing.
D1_check_api_key_no_return ==
    /\ d1_pc = "check_key"
    /\ IF "api_key" \notin d1_settings.keys
       THEN d1_exc' = "KeyError" /\ d1_pc' = "raised" /\ UNCHANGED d1_out
       ELSE IF d1_settings.api_key = Placeholder
       THEN /\ d1_out' = Append(d1_out, "api_key_not_set")
            /\ d1_pc' = "send"
            /\ UNCHANGED d1_exc
       ELSE d1_pc' = "send" /\ UNCHANGED <<d1_out, d1_exc>>
    /\ UNCHANGED <<d1_settings, d1_result, d1_posts, cfgvars, d2vars>>

\* lines 75-77: the test of the API key
D1_check_api_key ==
    /\ d1_pc = "check_key"
    /\ IF "api_key" \notin d1_settings.keys
       THEN d1_exc' = "KeyError" /\ d1_pc' = "raised" /\ UNCHANGED d1_out
       ELSE IF d1_settings.api_key = Placeholder
       THEN /\ d1_out' = Append(d1_out, "api_key_not_set")
            /\ d1_pc' = "done"
            /\ UNCHANGED d1_exc
       ELSE d1_pc' = "send" /\ UNCHANGED <<d1_out, d1_exc>>
    /\ UNCHANGED <<d1_settings, d1_result, d1_posts, cfgvars, d2vars>>

\* lines 80-84 and send_request (lines 32-63)
D1_send_request ==
    /\ d1_pc = "send"
    /\ \/ \* lines 35-47: headers and payload are built outside the try
          /\ ~({"api_key", "model", "max_tokens"} \subseteq d1_settings.keys)
          /\ d1_out' = Append(d1_out, "sending")
          /\ d1_exc' = "KeyError"
          /\ d1_pc' = "raised"
          /\ UNCHANGED <<d1_result, d1_posts>>
       \/ \* lines 51, 54: the arguments of requests.post; neither except
          \* clause names KeyError
          /\ {"api_key", "model", "max_tokens"} \subseteq d1_settings.keys
          /\ ~({"base_url", "timeout"} \subseteq d1_settings.keys)
          /\ d1_out' = Append(d1_out, "sending")
          /\ d1_exc' = "KeyError"
          /\ d1_pc' = "raised"
          /\ UNCHANGED <<d1_result, d1_posts>>
       \/ \* lines 50-60: requests.post or raise_for_status raises a
          \* RequestException; with requests >= 2.27 so does response.json()
          /\ SettingsKeys \subseteq d1_settings.keys
          /\ \E e \in {"ConnectionError", "HTTPError", "requests.JSONDecodeError"} :
                d1_posts' = d1_posts + 1
          /\ d1_out' = d1_out \o <<"sending", "request_error">>
          /\ d1_result' = "None"
          /\ d1_pc' = "result"
          /\ UNCHANGED d1_exc
       \/ \* lines 57, 61-63: response.json() raises json.JSONDecodeError
          /\ SettingsKeys \subseteq d1_settings.keys
          /\ d1_posts' = d1_posts + 1
          /\ d1_out' = d1_out \o <<"sending", "json_error">>
          /\ d1_result' = "None"
          /\ d1_pc' = "result"
          /\ UNCHANGED d1_exc
       \/ \* line 57: the parsed body is returned
          /\ SettingsKeys \subseteq d1_settings.keys
          /\ \E body \in JsonBodies :
                d1_result' = body
          /\ d1_posts' = d1_posts + 1
          /\ d1_out' = Append(d1_out, "sending")
          /\ d1_pc' = "result"
          /\ UNCHANGED d1_exc
    /\ UNCHANGED <<d1_settings, cfgvars, d2vars>>

\* lines 86-98
D1_print_result ==
    /\ d1_pc = "result"
    /\ IF ~Truthy(d1_result)
       THEN /\ d1_out' = Append(d1_out, "no_response")
            /\ d1_pc' = "done"
            /\ UNCHANGED d1_exc
       ELSE IF InChoices(d1_result) = "TypeError"
       THEN d1_exc' = "TypeError" /\ d1_pc' = "raised" /\ UNCHANGED d1_out
       ELSE IF InChoices(d1_result) = "False"
       THEN /\ d1_out' = Append(d1_out, "no_answer_in_response")
            /\ d1_pc' = "done"
            /\ UNCHANGED d1_exc
       ELSE IF LenChoices(d1_result) = "TypeError"
       THEN d1_exc' = "TypeError" /\ d1_pc' = "raised" /\ UNCHANGED d1_out
       ELSE IF LenChoices(d1_result) = "0"
       THEN /\ d1_out' = Append(d1_out, "no_answer_in_response")
            /\ d1_pc' = "done"
            /\ UNCHANGED d1_exc
       ELSE IF Content(d1_result) = "KeyError"
       THEN d1_exc' = "KeyError" /\ d1_pc' = "raised" /\ UNCHANGED d1_out
       ELSE /\ d1_out' = d1_out \o <<"rule", "your_cat", "rule", Content(d1_result), "rule">>
            /\ d1_pc' = "done"
            /\ UNCHANGED d1_exc
    /\ UNCHANGED <<d1_settings, d1_result, d1_posts, cfgvars, d2vars>>

Day02Off ==
    /\ PROMPT_TEMPLATE = StrPing
    /\ RESPONSE_FORMAT = StrJson
    /\ MAX_TOKENS = 5
    /\ STOP_SEQUENCE = StrStop
    /\ MODEL = "gpt"
    /\ pc = "off"
    /\ it = 0
    /\ i = 0
    /\ flags = <<FALSE, FALSE, FALSE>>
    /\ out = <<>>
    /\ calls = <<>>
    /\ visited = <<>>
    /\ run = 1
    /\ prevCalls = <<>>
    /\ prevErrors = 0

\* lines 100-101: the script is started
InitDay01 ==
    /\ d1_pc = "start"
    /\ d1_settings = NoSettings
    /\ d1_result = "unset"
    /\ d1_out = <<>>
    /\ d1_posts = 0
    /\ d1_exc = "none"
    /\ Day02Off

NextDay01 ==
    D1_load_settings \/ D1_check_api_key \/ D1_send_request \/ D1_print_result

SpecDay01 == InitDay01 /\ [][NextDay01]_vars

---------------------------------------------------------------------------
\* Properties of day-02-fight-club/main.py.

Bit(b) == IF b THEN 1 ELSE 0

\* The tuple read as a 3-bit number, use_format the most significant bit.
Value(t) == 4 * Bit(t[1]) + 2 * Bit(t[2]) + Bit(t[3])

Headers == SelectSeq(out, LAMBDA l : l.kind = "header")
Errors == SelectSeq(out, LAMBDA l : l.kind = "error")
Answers == SelectSeq(out, LAMBDA l : l.kind = "answer")

CallsOf(n) == {k \in 1..Len(calls) : calls[k].i = n}
ErrorsOf(n) == {k \in 1..Len(out) : out[k].kind = "error" /\ out[k].i = n}
AnswersOf(n) == {k \in 1..Len(out) : out[k].kind = "answer" /\ out[k].i = n}

\* C1: the loop takes the tuples in the order 000, 001, ..., 111 (use_format
\* the most significant bit), each once, the tuple of value v is announced
\* as trial v + 1, and main returns after all 8.
C1_EnumerationOrder ==
    /\ Len(visited) <= 8
    /\ Len(Headers) = Len(visited)
    /\ \A k \in 1..Len(visited) :
        /\ Value(visited[k]) = k - 1
        /\ Headers[k].i = Value(visited[k]) + 1
    /\ pc = "done" => Len(visited) = 8

C1_Witness ==
    /\ pc = "done"
    /\ Len(visited) = 8
    /\ visited[1] = <<FALSE, FALSE, FALSE>>
    /\ visited[5] = <<TRUE, FALSE, FALSE>>
    /\ Headers[8].i = 8

\* The state part of C2: no exception leaves main, a trial makes at most one
\* transport call and prints at most one result, a finished trial exactly
\* one of each, and at the return all 8 calls were made in order.
C2_State ==
    /\ pc # "crashed"
    /\ \A n \in 1..8 :
        /\ Cardinality(CallsOf(n)) <= 1
        /\ Cardinality(ErrorsOf(n)) + Cardinality(AnswersOf(n)) <= 1
        /\ (n < i \/ pc \in {"loop", "done"}) /\ n <= i =>
            /\ Cardinality(CallsOf(n)) = 1
            /\ Cardinality(ErrorsOf(n)) + Cardinality(AnswersOf(n)) = 1
    /\ pc = "done" =>
        /\ Len(calls) = 8
        /\ \A n \in 1..8 : calls[n].i = n /\ calls[n].flags = visited[n]

\* C2: whatever trials fail, every trial makes exactly one transport call, a
\* failed trial prints one error and the loop goes on, no exception leaves
\* main, and main returns after the 8th trial.
C2_AllTrialsAttempted == [](C2_State) /\ <>(pc = "done")

C2_Witness ==
    /\ pc = "done"
    /\ Len(calls) = 8
    /\ ErrorsOf(1) # {}
    /\ ErrorsOf(2) = {}
    /\ ErrorsOf(7) # {}
    /\ ErrorsOf(8) # {}

\* C5: a payload holds stop exactly when use_stop is set, with the
\* configured stop sequence, and max_tokens exactly when use_max_tokens is
\* set, with the configured limit, whatever the other flags are.
C5_StopAndMaxTokens ==
    \A k \in 1..Len(calls) :
        LET c == calls[k] IN
        /\ "stop" \in DOMAIN c.kwargs <=> c.flags[3]
        /\ c.flags[3] => c.kwargs.stop = STOP_SEQUENCE
        /\ "max_tokens" \in DOMAIN c.kwargs <=> c.flags[2]
        /\ c.flags[2] => c.kwargs.max_tokens = MAX_TOKENS

C5_Witness ==
    /\ Len(calls) = 8
    /\ \E k \in 1..8 : calls[k].flags = <<TRUE, TRUE, FALSE>>
                       /\ DOMAIN calls[k].kwargs = {"model", "messages", "max_tokens"}
    /\ \E k \in 1..8 : calls[k].flags = <<FALSE, FALSE, TRUE>>
                       /\ calls[k].kwargs.stop = STOP_SEQUENCE

StartsWith(s, prefix) ==
    Len(s) >= Len(prefix) /\ SubSeq(s, 1, Len(prefix)) = prefix

\* C6: a payload holds the JSON-object response_format exactly when
\* use_format is set and the configured format is "json"; with use_format
\* set the system message names the configured format in either case.
C6_JsonDirective ==
    \A k \in 1..Len(calls) :
        LET c == calls[k] IN
        /\ "response_format" \in DOMAIN c.kwargs
            <=> (c.flags[1] /\ RESPONSE_FORMAT = <<"j", "s", "o", "n">>)
        /\ "response_format" \in DOMAIN c.kwargs
            => c.kwargs.response_format = [type |-> "json_object"]
        /\ c.flags[1] =>
            /\ c.kwargs.messages[1].role = "system"
            /\ StartsWith(c.kwargs.messages[1].content,
                          <<FormatLead>> \o RESPONSE_FORMAT \o <<".">>)

C6_Witness ==
    /\ RESPONSE_FORMAT = <<"J", "S", "O", "N">>
    /\ \E k \in 1..Len(calls) :
        /\ calls[k].flags[1]
        /\ "response_format" \notin DOMAIN calls[k].kwargs
        /\ calls[k].kwargs.messages[1].content
            = <<FormatLead, "J", "S", "O", "N", ".">>

\* C7: the message list ends with the one user message, whose content is the
\* configured prompt; with no flag set it is the whole list, otherwise one
\* system message with the built instruction precedes it.
C7_Messages ==
    \A k \in 1..Len(calls) :
        LET c == calls[k]
            msgs == c.kwargs.messages
        IN
        /\ msgs[Len(msgs)] = [role |-> "user", content |-> PROMPT_TEMPLATE]
        /\ Cardinality({m \in 1..Len(msgs) : msgs[m].role = "user"}) = 1
        /\ c.flags = <<FALSE, FALSE, FALSE>> => Len(msgs) = 1
        /\ c.flags # <<FALSE, FALSE, FALSE>> =>
            /\ Len(msgs) = 2
            /\ msgs[1].role = "system"
            /\ msgs[1].content = c.system_instruction
            /\ c.system_instruction # <<>>

C7_Witness ==
    /\ Len(calls) >= 2
    /\ PROMPT_TEMPLATE = <<>>
    /\ Len(calls[1].kwargs.messages) = 1
    /\ Len(calls[2].kwargs.messages) = 2
    /\ calls[2].kwargs.messages[2] = [role |-> "user", content |-> <<>>]

FormatInstruction == <<FormatLead>> \o RESPONSE_FORMAT \o <<".">>
TokensInstruction == <<TokensLead>> \o IntToStr(MAX_TOKENS) \o <<TokensTail>>
StopInstruction == <<StopLead>> \o repr(STOP_SEQUENCE)

\* The system instruction of each tuple, written out.
ExpectedInstruction(t) ==
    CASE t = <<FALSE, FALSE, FALSE>> -> <<>>
      [] t = <<FALSE, FALSE, TRUE>> -> StopInstruction
      [] t = <<FALSE, TRUE, FALSE>> -> TokensInstruction
      [] t = <<FALSE, TRUE, TRUE>> -> TokensInstruction \o <<" ">> \o StopInstruction
      [] t = <<TRUE, FALSE, FALSE>> -> FormatInstruction
      [] t = <<TRUE, FALSE, TRUE>> -> FormatInstruction \o <<" ">> \o StopInstruction
      [] t = <<TRUE, TRUE, FALSE>> -> FormatInstruction \o <<" ">> \o TokensInstruction
      [] t = <<TRUE, TRUE, TRUE>> ->
            FormatInstruction \o <<" ">> \o TokensInstruction
                \o <<" ">> \o StopInstruction

\* The instruction of (True, True, True) for response_format = json,
\* max_tokens = 5, stop_sequence = STOP.
EndToEndInstruction ==
    <<FormatLead, "j", "s", "o", "n", ".", " ",
      TokensLead, "5", TokensTail, " ",
      StopLead, "'", "S", "T", "O", "P", "'">>

\* C8: the system instruction of a tuple is the instructions of its enabled
\* flags in the order format, max-tokens, stop, joined by one space: empty
\* for no flag, nothing of a disabled flag, and the three instructions in
\* that order for json, 5, STOP and (True, True, True).
C8_SystemPrompt ==
    \A k \in 1..Len(calls) :
        LET c == calls[k] IN
        /\ c.system_instruction = ExpectedInstruction(c.flags)
        /\ ~c.flags[1] => ~Contains(c.system_instruction, FormatLead)
        /\ ~c.flags[2] => ~Contains(c.system_instruction, TokensLead)
        /\ ~c.flags[3] => ~Contains(c.system_instruction, StopLead)
        /\ (/\ c.flags = <<TRUE, TRUE, TRUE>>
            /\ RESPONSE_FORMAT = <<"j", "s", "o", "n">>
            /\ MAX_TOKENS = 5
            /\ STOP_SEQUENCE = <<"S", "T", "O", "P">>)
            => c.system_instruction = EndToEndInstruction

C8_Witness ==
    /\ Len(calls) = 8
    /\ calls[1].system_instruction = <<>>
    /\ calls[8].flags = <<TRUE, TRUE, TRUE>>
    /\ calls[8].system_instruction = EndToEndInstruction

\* In the second execution every payload equals the first execution's
\* payload of the same trial.
C9_SamePayloads ==
    \A k \in 1..Len(calls) :
        (run = 2 /\ k <= Len(prevCalls)) => calls[k].kwargs = prevCalls[k].kwargs

\* C9: the payload of a trial is the same in two executions of the script
\* whatever trials failed in either, and no step changes the settings.
C9_PayloadIndependent == [](C9_SamePayloads) /\ [][cfgvars' = cfgvars]_vars

C9_Witness ==
    /\ run = 2
    /\ pc = "done"
    /\ prevErrors = 8
    /\ Len(Errors) = 0
    /\ Len(calls) = 8
    /\ Len(prevCalls) = 8

---------------------------------------------------------------------------
\* Properties of day-01/main.py.

HasPlaceholderKey ==
    /\ d1_settings.loaded
    /\ "api_key" \in d1_settings.keys
    /\ d1_settings.api_key = Placeholder

\* What the script printed after its start banner.
D1_Diagnostics == SelectSeq(d1_out, LAMBDA m : m # "start")

\* C3: with the placeholder API key the run ends without a transport call
\* and with exactly one diagnostic message.
C3_PlaceholderAborts ==
    HasPlaceholderKey =>
        /\ d1_posts = 0
        /\ d1_exc = "none"
        /\ d1_pc \in {"check_key", "done"}
        /\ d1_pc = "done" => D1_Diagnostics = <<"api_key_not_set">>

C3_Witness ==
    /\ HasPlaceholderKey
    /\ d1_pc = "done"
    /\ d1_settings.keys = {"api_key"}
    /\ d1_out = <<"start", "api_key_not_set">>

\* C4: no exception leaves main, and a missing required key ends the run
\* before any request is sent.
C4_NoExceptionEscapes ==
    /\ d1_exc = "none"
    /\ d1_pc # "raised"
    /\ (d1_settings.loaded /\ ~(SettingsKeys \subseteq d1_settings.keys))
        => d1_posts = 0

FailureMessages ==
    {"request_error", "json_error", "no_answer_in_response", "no_response"}

NonEmptyChoicesList(r) ==
    r \in {"{choices:[{}]}", "{choices:[{message:{}}]}",
           "{choices:[{message:{content}}]}"}

\* C10: at most one transport call; the response text is printed only after
\* a call that returned a body with a non-empty choices list; every other
\* run that made the call prints no response text and a failure message.
C10_ResponseOrFailure ==
    /\ d1_posts <= 1
    /\ Contains(d1_out, "content") =>
        d1_posts = 1 /\ NonEmptyChoicesList(d1_result)
    /\ (d1_pc \in {"done", "raised"} /\ d1_posts = 1
            /\ ~NonEmptyChoicesList(d1_result)) =>
        /\ ~Contains(d1_out, "content")
        /\ \E m \in FailureMessages : Contains(d1_out, m)

====
